---------------------------- MODULE Spec2Model ----------------------------
(* A model of examples/utils.py: the rank-table loader                     *)
(* reload_mergeable_ranks and the byte-level BPE tokenizer                 *)
(* CustomTikTokenizer (construction, tokenize, detokenize), and the        *)
(* generator throttle_generator.                                           *)
(*                                                                         *)
(* Texts are sequences of Unicode code points, byte strings are sequences  *)
(* of 0..255, the vocabulary file is the list json.load returns.  A call   *)
(* that raises is the result [ok |-> FALSE, ...].                          *)
EXTENDS Integers, Sequences, FiniteSets, TLC

VARIABLES
    vocab_file,   \* the file at `path`: [path_json, is_list, entries]
    tok,          \* the CustomTikTokenizer instance, if any
    call,         \* the last call made and what it returned
    gen           \* the frame of a throttle_generator generator, if any

vars == <<vocab_file, tok, call, gen>>

(***************************************************************************)
(* Bounds of the model.                                                    *)
(***************************************************************************)
MaxTextLen == 3      \* code points in a text given to tokenize
MaxIds == 3          \* ids in a sequence given to detokenize
MaxSource == 5       \* items the generator given to throttle_generator yields
MaxInterval == 3     \* stream_interval given to throttle_generator

(***************************************************************************)
(* Helpers on sequences.                                                   *)
(***************************************************************************)
Min(a, b) == IF a <= b THEN a ELSE b
Max(a, b) == IF a >= b THEN a ELSE b

Range(s) == {s[i] : i \in 1..Len(s)}

RECURSIVE Concat(_)
\* b"".join(pieces)
Concat(ss) == IF ss = <<>> THEN <<>> ELSE Head(ss) \o Concat(Tail(ss))

\* seq[:k] of Python, k any integer
PyPrefix(s, k) ==
    IF k >= 0 THEN SubSeq(s, 1, Min(k, Len(s)))
    ELSE SubSeq(s, 1, Max(Len(s) + k, 0))

\* list.index(x) of Python (0-based), for x in the list
PyIndex(s, x) == CHOOSE i \in 0..(Len(s) - 1) :
                     s[i + 1] = x /\ \A j \in 0..(i - 1) : s[j + 1] # x

\* Optional[int]
None == [some |-> FALSE, v |-> 0]
Some(n) == [some |-> TRUE, v |-> n]

(***************************************************************************)
(* UTF-8, as str.encode("utf-8") and bytes.decode("utf-8", "replace").     *)
(***************************************************************************)
REPLACEMENT == 65533     \* U+FFFD

IsSurrogate(cp) == 55296 <= cp /\ cp <= 57343
IsHighSurrogate(cp) == 55296 <= cp /\ cp <= 56319
IsLowSurrogate(cp) == 56320 <= cp /\ cp <= 57343

Utf8EncodeChar(cp) ==
    IF cp < 128 THEN <<cp>>
    ELSE IF cp < 2048 THEN <<192 + (cp \div 64), 128 + (cp % 64)>>
    ELSE IF cp < 65536
         THEN <<224 + (cp \div 4096), 128 + ((cp \div 64) % 64), 128 + (cp % 64)>>
    ELSE <<240 + (cp \div 262144), 128 + ((cp \div 4096) % 64),
           128 + ((cp \div 64) % 64), 128 + (cp % 64)>>

RECURSIVE Utf8Encode(_)
Utf8Encode(text) ==
    IF text = <<>> THEN <<>>
    ELSE Utf8EncodeChar(Head(text)) \o Utf8Encode(Tail(text))

IsCont(b) == 128 <= b /\ b <= 191

\* The range the second byte of a sequence led by b0 must lie in.
SecondLo(b0) == IF b0 = 224 THEN 160 ELSE IF b0 = 240 THEN 144 ELSE 128
SecondHi(b0) == IF b0 = 237 THEN 159 ELSE IF b0 = 244 THEN 143 ELSE 191

\* The number of bytes of the sequence a lead byte announces (0: no lead byte).
Utf8Need(b0) ==
    IF b0 < 128 THEN 1
    ELSE IF 194 <= b0 /\ b0 <= 223 THEN 2
    ELSE IF 224 <= b0 /\ b0 <= 239 THEN 3
    ELSE IF 240 <= b0 /\ b0 <= 244 THEN 4
    ELSE 0

\* One decoding step at the head of bs: the code point and the bytes used.
\* An ill-formed sequence gives U+FFFD for its maximal well-formed prefix.
Utf8Step(bs) ==
    LET b0 == bs[1]
        n == Utf8Need(b0)
        has(i) == i <= Len(bs)
        ok2 == has(2) /\ SecondLo(b0) <= bs[2] /\ bs[2] <= SecondHi(b0)
        ok3 == has(3) /\ IsCont(bs[3])
        ok4 == has(4) /\ IsCont(bs[4])
        bad(k) == [cp |-> REPLACEMENT, used |-> k]
    IN  IF n = 1 THEN [cp |-> b0, used |-> 1]
        ELSE IF n = 0 THEN bad(1)
        ELSE IF ~ok2 THEN bad(1)
        ELSE IF n = 2
             THEN [cp |-> (b0 - 192) * 64 + (bs[2] - 128), used |-> 2]
        ELSE IF ~ok3 THEN bad(2)
        ELSE IF n = 3
             THEN [cp |-> (b0 - 224) * 4096 + (bs[2] - 128) * 64 + (bs[3] - 128),
                   used |-> 3]
        ELSE IF ~ok4 THEN bad(3)
        ELSE [cp |-> (b0 - 240) * 262144 + (bs[2] - 128) * 4096
                     + (bs[3] - 128) * 64 + (bs[4] - 128),
              used |-> 4]

RECURSIVE Utf8DecodeReplace(_)
Utf8DecodeReplace(bs) ==
    IF bs = <<>> THEN <<>>
    ELSE LET st == Utf8Step(bs)
         IN  <<st.cp>> \o Utf8DecodeReplace(SubSeq(bs, st.used + 1, Len(bs)))

(***************************************************************************)
(* base64: a text of base64 is the sequence of its characters' values,     *)
(* 0..63, with 64 for the padding character '='.                           *)
(***************************************************************************)
PAD == 64

\* base64.b64encode, which wrote the token_bytes fields of the file
B64Encode3(bs) ==
    LET n == Len(bs)
        b1 == bs[1]
        b2 == IF n >= 2 THEN bs[2] ELSE 0
        b3 == IF n >= 3 THEN bs[3] ELSE 0
        v == b1 * 65536 + b2 * 256 + b3
    IN  << v \div 262144,
           (v \div 4096) % 64,
           IF n >= 2 THEN (v \div 64) % 64 ELSE PAD,
           IF n >= 3 THEN v % 64 ELSE PAD >>

RECURSIVE B64Encode(_)
B64Encode(bs) ==
    IF bs = <<>> THEN <<>>
    ELSE IF Len(bs) <= 3 THEN B64Encode3(bs)
    ELSE B64Encode3(SubSeq(bs, 1, 3)) \o B64Encode(SubSeq(bs, 4, Len(bs)))

\* the bytes of one group of four characters
B64Decode4(q) ==
    LET c3 == IF q[3] = PAD THEN 0 ELSE q[3]
        c4 == IF q[4] = PAD THEN 0 ELSE q[4]
        v == q[1] * 262144 + q[2] * 4096 + c3 * 64 + c4
        all == << v \div 65536, (v \div 256) % 256, v % 256 >>
    IN  IF q[3] = PAD THEN SubSeq(all, 1, 1)
        ELSE IF q[4] = PAD THEN SubSeq(all, 1, 2)
        ELSE all

\* a group of four is well padded: '=' only as its last or its last two
B64GroupOk(q, last) ==
    /\ q[1] # PAD /\ q[2] # PAD
    /\ (q[3] = PAD => q[4] = PAD)
    /\ (q[4] = PAD => last)

RECURSIVE B64DecodeGroups(_)
B64DecodeGroups(cs) ==
    IF cs = <<>> THEN <<>>
    ELSE B64Decode4(SubSeq(cs, 1, 4)) \o B64DecodeGroups(SubSeq(cs, 5, Len(cs)))

\* base64.b64decode: binascii.Error ("Incorrect padding") on a text that is
\* not a whole number of well-padded groups
b64decode(cs) ==
    IF Len(cs) % 4 # 0
       \/ \E g \in 0..((Len(cs) \div 4) - 1) :
              ~B64GroupOk(SubSeq(cs, 4 * g + 1, 4 * g + 4), 4 * g + 4 = Len(cs))
    THEN [ok |-> FALSE, val |-> <<>>]
    ELSE [ok |-> TRUE, val |-> B64DecodeGroups(cs)]

(***************************************************************************)
(* The vocabulary file: a JSON list of {rank, token_bytes, token_str}.     *)
(***************************************************************************)
ENTRY_KEYS == {"rank", "token_bytes", "token_str"}

\* The merges of the vocabulary that follow the 256 single bytes, by rank:
\* "ab", "\xc3\xa9" (e acute), " a", "ba".
MERGES == << <<97, 98>>, <<195, 169>>, <<32, 97>>, <<98, 97>> >>

TokenAt(r) == IF r < 256 THEN <<r>> ELSE MERGES[r - 255]

FullLen == 256 + Len(MERGES)

GoodEntry(r) ==
    [keys |-> ENTRY_KEYS, rank |-> r, token_bytes |-> B64Encode(TokenAt(r))]

GoodVocab(n) == [i \in 1..n |-> GoodEntry(i - 1)]

JsonFile(entries) == [path_json |-> TRUE, is_list |-> TRUE, entries |-> entries]

\* Positions (0-based) at which a file of the model carries a wrong rank.
MismatchAt == {5, 258}

\* The files the model loads: well-formed ones of several lengths, files
\* with one defect each, and a file the loader accepts whose last entry
\* ("bbb") is the concatenation of no two other entries.
Files ==
    {JsonFile(GoodVocab(n)) : n \in {0, 100, FullLen}}
    \cup {JsonFile([GoodVocab(FullLen) EXCEPT ![p + 1].rank = p + 1]) :
              p \in MismatchAt}
    \cup {JsonFile([GoodVocab(FullLen) EXCEPT
                       ![FullLen].token_bytes = B64Encode(MERGES[1])]),
          JsonFile([GoodVocab(FullLen) EXCEPT
                       ![98].token_bytes = B64Encode(<<97, 97>>)]),
          JsonFile([GoodVocab(FullLen) EXCEPT
                       ![FullLen].token_bytes = B64Encode(<<98, 98, 98>>)]),
          JsonFile([GoodVocab(FullLen) EXCEPT ![259].token_bytes = <<24, 16>>]),
          JsonFile([GoodVocab(FullLen) EXCEPT
                       ![3].keys = {"rank", "token_bytes"}]),
          [JsonFile(GoodVocab(FullLen)) EXCEPT !.is_list = FALSE],
          [JsonFile(GoodVocab(FullLen)) EXCEPT !.path_json = FALSE]}

(***************************************************************************)
(* reload_mergeable_ranks                                                  *)
(***************************************************************************)
EmptyDict == [k \in {} |-> 0]

DictValues(d) == {d[k] : k \in DOMAIN d}

Raised == [ok |-> FALSE, val |-> EmptyDict]

\* a pass of the loop without "assert i >= 256 or merge == bytes([i])"
EntryPasses_noSeed(x, i) ==
    /\ x.keys = ENTRY_KEYS
    /\ x.rank = i
    /\ b64decode(x.token_bytes).ok

\* One pass of the loop "for i, x in enumerate(vocab)" raises nothing: the
\* three asserts and the base64 decoding of entry i (0-based) pass.
EntryPasses(x, i) ==
    /\ x.keys = ENTRY_KEYS
    /\ x.rank = i
    /\ b64decode(x.token_bytes).ok
    /\ (i >= 256 \/ b64decode(x.token_bytes).val = <<i>>)

\* The dict the loop leaves when no pass raises: ranks[merge] = x["rank"]
\* for every entry in turn, a later entry overwriting an earlier one that
\* has the same bytes.
BuildRanks(vocab) ==
    IF \E i \in 0..(Len(vocab) - 1) : ~EntryPasses(vocab[i + 1], i)
    THEN Raised
    ELSE LET merge == [i \in 1..Len(vocab) |-> b64decode(vocab[i].token_bytes).val]
             last(m) == CHOOSE i \in 1..Len(vocab) :
                            /\ merge[i] = m
                            /\ \A j \in (i + 1)..Len(vocab) : merge[j] # m
         IN  [ok |-> TRUE,
              val |-> [m \in Range(merge) |-> vocab[last(m)].rank]]

\* the cut one entry short: vocab[:max_vocab - 1]
CutVocab_short(entries, max_vocab) ==
    IF max_vocab.some THEN PyPrefix(entries, max_vocab.v - 1) ELSE entries

\* the sanity check left out
SanityHolds_skipped(ranks, vocab) == TRUE

\* "assert len(ranks) == len(vocab)" and
\* "assert set(ranks.values()) == set(range(len(ranks)))"
SanityHolds(ranks, vocab) ==
    /\ Cardinality(DOMAIN ranks) = Len(vocab)
    /\ DictValues(ranks) = 0..(Cardinality(DOMAIN ranks) - 1)

\* "if max_vocab is not None: vocab = vocab[:max_vocab]"
CutVocab(entries, max_vocab) ==
    IF max_vocab.some THEN PyPrefix(entries, max_vocab.v) ELSE entries

reload_mergeable_ranks(file, max_vocab) ==
    IF ~file.path_json THEN Raised
    ELSE IF ~file.is_list THEN Raised
    ELSE LET vocab == CutVocab(file.entries, max_vocab)
             built == BuildRanks(vocab)
         IN  IF ~built.ok THEN Raised
             ELSE IF ~SanityHolds(built.val, vocab) THEN Raised
             ELSE built

(***************************************************************************)
(* CustomTikTokenizer.__init__                                             *)
(***************************************************************************)
SPECIAL_TOKENS == <<"<unk>", "<s>", "</s>">>

\* the placeholder label without the slot number
SPECIAL_TOKEN_TEMPLATE_noId(id) == "<SPECIAL_>"

SPECIAL_TOKEN_TEMPLATE(id) == "<SPECIAL_" \o ToString(id) \o ">"

NoTokenizer ==
    [status |-> "none", vocab_size |-> 0, num_special_tokens |-> 0,
     special_tokens |-> <<>>, unk_id |-> 0, bos_id |-> 0, eos_id |-> 0,
     inner_vocab_size |-> 0, token2id |-> EmptyDict, id2token |-> EmptyDict,
     shifted_id2token |-> EmptyDict]

\* __init__ raised: no instance exists
NotConstructed == [NoTokenizer EXCEPT !.status = "failed"]

\* {v: k for k, v in token2id.items()}
InverseDict(d) ==
    [v \in DictValues(d) |-> CHOOSE k \in DOMAIN d : d[k] = v]

\* inner_vocab_size without the special tokens taken off
InnerVocabSize_whole(vocab_size, num_special_tokens) == vocab_size

\* self.inner_vocab_size
InnerVocabSize(vocab_size, num_special_tokens) == vocab_size - num_special_tokens

\* the assert taking a table that is too small
InnerSizeHolds_subset(inner_vocab_size, id2token) ==
    DOMAIN id2token \subseteq 0..(inner_vocab_size - 1)

\* "assert set(range(self.inner_vocab_size)) == set(self.id2token.keys())"
InnerSizeHolds(inner_vocab_size, id2token) ==
    0..(inner_vocab_size - 1) = DOMAIN id2token

CustomTikTokenizer_init(file, vocab_size, num_special_tokens, special_tokens_arg) ==
    LET special_tokens == IF special_tokens_arg.some THEN special_tokens_arg.v
                          ELSE SPECIAL_TOKENS
        special_filler ==
            [j \in 1..Max(num_special_tokens - Len(special_tokens), 0) |->
                SPECIAL_TOKEN_TEMPLATE(Len(special_tokens) + j - 1)]
        all_special == special_tokens \o special_filler
        inner_vocab_size == InnerVocabSize(vocab_size, num_special_tokens)
        loaded == reload_mergeable_ranks(file, Some(inner_vocab_size))
        id2token == InverseDict(loaded.val)
    IN  IF Len(special_tokens) # Cardinality(Range(special_tokens))
        THEN NotConstructed
        ELSE IF ~(Len(special_tokens) <= num_special_tokens
                  /\ num_special_tokens < vocab_size)
        THEN NotConstructed
        ELSE IF ~(Range(SPECIAL_TOKENS) \subseteq Range(special_tokens))
        THEN NotConstructed
        ELSE IF ~(Cardinality(Range(all_special)) = Len(all_special)
                  /\ Len(all_special) = num_special_tokens)
        THEN NotConstructed
        ELSE IF ~loaded.ok THEN NotConstructed
        ELSE IF ~InnerSizeHolds(inner_vocab_size, id2token) THEN NotConstructed
        ELSE [status |-> "ok",
              vocab_size |-> vocab_size,
              num_special_tokens |-> num_special_tokens,
              special_tokens |-> all_special,
              unk_id |-> PyIndex(special_tokens, "<unk>"),
              bos_id |-> PyIndex(special_tokens, "<s>"),
              eos_id |-> PyIndex(special_tokens, "</s>"),
              inner_vocab_size |-> inner_vocab_size,
              token2id |-> loaded.val,
              id2token |-> id2token,
              shifted_id2token |->
                  [i \in 0..(num_special_tokens - 1)
                         \cup {key + num_special_tokens : key \in DOMAIN id2token} |->
                      IF i < num_special_tokens
                      THEN [special |-> TRUE, label |-> all_special[i + 1],
                            bytes |-> <<>>]
                      ELSE [special |-> FALSE, label |-> "",
                            bytes |-> id2token[i - num_special_tokens]]]]

(***************************************************************************)
(* tiktoken.Encoding, as CustomTikTokenizer uses it: built over            *)
(* mergeable_ranks = token2id with PATTERN_TIKTOKEN_V2 and no special      *)
(* tokens of its own.                                                      *)
(***************************************************************************)
\* What Encoding.encode does to a str that UTF-8 cannot encode:
\* text.encode("utf-16", "surrogatepass").decode("utf-16", "replace").
\* A high surrogate followed by a low one becomes the code point the pair
\* stands for, any other surrogate becomes U+FFFD.
RECURSIVE SurrogateFixup(_)
SurrogateFixup(text) ==
    IF text = <<>> THEN <<>>
    ELSE IF Len(text) >= 2 /\ IsHighSurrogate(text[1]) /\ IsLowSurrogate(text[2])
    THEN <<65536 + (text[1] - 55296) * 1024 + (text[2] - 56320)>>
             \o SurrogateFixup(SubSeq(text, 3, Len(text)))
    ELSE IF IsSurrogate(text[1])
    THEN <<REPLACEMENT>> \o SurrogateFixup(Tail(text))
    ELSE <<text[1]>> \o SurrogateFixup(Tail(text))

\* The classes PATTERN_TIKTOKEN_V2 tells apart, for the code points of
\* Latin-1 (its letters of class Lo left out) and the symbols above it:
\* Ll and Lu (\p{L}), N (\p{N}), Nl (\r, \n), Sp (the rest of \s),
\* Sl ('/') and O (any other character).
CharClass(c) ==
    IF c \in 97..122 \/ c \in 223..246 \/ c \in 248..255 THEN "Ll"
    ELSE IF c \in 65..90 \/ c \in 192..214 \/ c \in 216..222 THEN "Lu"
    ELSE IF c \in 48..57 THEN "N"
    ELSE IF c \in {10, 13} THEN "Nl"
    ELSE IF c \in {9, 11, 12, 32, 133, 160} THEN "Sp"
    ELSE IF c = 47 THEN "Sl"
    ELSE "O"

\* the length of the longest run of characters of the classes cs from p on
RunLen(t, p, cs) ==
    CHOOSE k \in 0..(Len(t) - p + 1) :
        /\ \A j \in 0..(k - 1) : CharClass(t[p + j]) \in cs
        /\ (p + k > Len(t) \/ CharClass(t[p + k]) \notin cs)

\* The alternatives of PATTERN_TIKTOKEN_V2 at position p of t: the length
\* of the (greedy) match of each, 0 when it does not match.

\* [^\r\n\p{L}\p{N}]? at p: one character that is no letter, number, \r, \n
PrefixLen(t, p) == IF CharClass(t[p]) \in {"Sp", "Sl", "O"} THEN 1 ELSE 0

\* [^\r\n\p{L}\p{N}]?[\p{Lu}..]*[\p{Ll}..]+
Alt1(t, p) ==
    LET q == p + PrefixLen(t, p)
        u == RunLen(t, q, {"Lu"})
    IN  IF RunLen(t, q + u, {"Ll"}) >= 1
        THEN (q - p) + u + RunLen(t, q + u, {"Ll"})
        ELSE 0

\* [^\r\n\p{L}\p{N}]?[\p{Lu}..]+[\p{Ll}..]*
Alt2(t, p) ==
    LET q == p + PrefixLen(t, p)
        u == RunLen(t, q, {"Lu"})
    IN  IF u >= 1 THEN (q - p) + u + RunLen(t, q + u, {"Ll"}) ELSE 0

\* \p{N}
Alt3(t, p) == IF CharClass(t[p]) = "N" THEN 1 ELSE 0

\* " ?[^\s\p{L}\p{N}]+[\r\n/]*"
Alt4(t, p) ==
    LET q == IF t[p] = 32 THEN p + 1 ELSE p
        o == RunLen(t, q, {"Sl", "O"})
    IN  IF o >= 1 THEN (q - p) + o + RunLen(t, q + o, {"Nl", "Sl"}) ELSE 0

\* "\s*[\r\n]+": up to the last newline of the run of whitespace
Alt5(t, p) ==
    LET nls == {k \in 1..RunLen(t, p, {"Sp", "Nl"}) : CharClass(t[p + k - 1]) = "Nl"}
    IN  IF nls # {} THEN CHOOSE k \in nls : \A k2 \in nls : k2 <= k ELSE 0

\* "\s+(?!\S)": the run of whitespace, less its last character when a
\* character that is no whitespace follows
Alt6(t, p) ==
    LET w == RunLen(t, p, {"Sp", "Nl"})
    IN  IF w >= 1 /\ p + w > Len(t) THEN w ELSE IF w >= 2 THEN w - 1 ELSE 0

\* "\s+"
Alt7(t, p) == RunLen(t, p, {"Sp", "Nl"})

\* the first positive number of a sequence, 0 if none
FirstPositive(ns) ==
    IF \A i \in 1..Len(ns) : ns[i] = 0 THEN 0
    ELSE ns[CHOOSE i \in 1..Len(ns) : ns[i] > 0 /\ \A j \in 1..(i - 1) : ns[j] = 0]

\* The length of the match of the pattern at position p of t: that of the
\* first alternative that matches.
MatchLen(t, p) ==
    FirstPositive(<<Alt1(t, p), Alt2(t, p), Alt3(t, p), Alt4(t, p),
                    Alt5(t, p), Alt6(t, p), Alt7(t, p)>>)

RECURSIVE SplitFrom(_, _)
\* the successive matches of the pattern from position p on
SplitFrom(t, p) ==
    IF p > Len(t) THEN <<>>
    ELSE LET n == MatchLen(t, p)
         IN  <<SubSeq(t, p, p + n - 1)>> \o SplitFrom(t, p + n)

\* the positions of parts whose pair with the next part is in ranks
MergeablePairs(parts, ranks) ==
    {i \in 1..(Len(parts) - 1) : (parts[i] \o parts[i + 1]) \in DOMAIN ranks}

\* the pair of the highest rank, the leftmost among equals
BestPair_highest(parts, ranks) ==
    CHOOSE i \in MergeablePairs(parts, ranks) :
        \A j \in MergeablePairs(parts, ranks) :
            LET ri == ranks[parts[i] \o parts[i + 1]]
                rj == ranks[parts[j] \o parts[j + 1]]
            IN  ri > rj \/ (ri = rj /\ i <= j)

\* the pair to merge next: the lowest rank, the leftmost among equals
BestPair(parts, ranks) ==
    CHOOSE i \in MergeablePairs(parts, ranks) :
        \A j \in MergeablePairs(parts, ranks) :
            LET ri == ranks[parts[i] \o parts[i + 1]]
                rj == ranks[parts[j] \o parts[j + 1]]
            IN  ri < rj \/ (ri = rj /\ i <= j)

RECURSIVE byte_pair_merge(_, _)
byte_pair_merge(parts, ranks) ==
    IF MergeablePairs(parts, ranks) = {} THEN parts
    ELSE LET i == BestPair(parts, ranks)
         IN  byte_pair_merge(SubSeq(parts, 1, i - 1)
                                 \o <<parts[i] \o parts[i + 1]>>
                                 \o SubSeq(parts, i + 2, Len(parts)),
                             ranks)

\* The ranks of one piece of the text.  A part that is not in ranks (a
\* single byte the table does not hold) makes the library fail.
byte_pair_encode(piece, ranks) ==
    IF piece \in DOMAIN ranks THEN [ok |-> TRUE, val |-> <<ranks[piece]>>]
    ELSE LET parts == byte_pair_merge([i \in 1..Len(piece) |-> <<piece[i]>>], ranks)
         IN  IF \E i \in 1..Len(parts) : parts[i] \notin DOMAIN ranks
             THEN [ok |-> FALSE, val |-> <<>>]
             ELSE [ok |-> TRUE, val |-> [i \in 1..Len(parts) |-> ranks[parts[i]]]]

\* Encoding.encode(text)
Encoding_encode(ranks, text) ==
    LET fixed == IF \E i \in 1..Len(text) : IsSurrogate(text[i])
                 THEN SurrogateFixup(text) ELSE text
        pieces == SplitFrom(fixed, 1)
        enc == [i \in 1..Len(pieces) |-> byte_pair_encode(Utf8Encode(pieces[i]), ranks)]
    IN  IF \E i \in 1..Len(pieces) : ~enc[i].ok
        THEN [ok |-> FALSE, val |-> <<>>]
        ELSE [ok |-> TRUE, val |-> Concat([i \in 1..Len(pieces) |-> enc[i].val])]

\* Encoding.decode(tokens): the bytes of the tokens, decoded as UTF-8 with
\* errors="replace".  A token that is no rank of the table (a negative
\* number among them) makes the library raise.
Encoding_decode(decoder, tokens) ==
    IF \E i \in 1..Len(tokens) : tokens[i] \notin DOMAIN decoder
    THEN [ok |-> FALSE, val |-> <<>>]
    ELSE [ok |-> TRUE,
          val |-> Utf8DecodeReplace(
                      Concat([i \in 1..Len(tokens) |-> decoder[tokens[i]]]))]

(***************************************************************************)
(* CustomTikTokenizer.tokenize and detokenize                              *)
(***************************************************************************)
\* tokenize appending the BOS id where the EOS id belongs
tokenize_eosIsBos(self, s, bos, eos) ==
    LET enc == Encoding_encode(self.token2id, s)
        tokens == [i \in 1..Len(enc.val) |-> enc.val[i] + self.num_special_tokens]
    IN  IF ~enc.ok THEN enc
        ELSE [ok |-> TRUE,
              val |-> (IF bos THEN <<self.bos_id>> ELSE <<>>)
                          \o tokens
                          \o (IF eos THEN <<self.bos_id>> ELSE <<>>)]

tokenize(self, s, bos, eos) ==
    LET enc == Encoding_encode(self.token2id, s)
        tokens == [i \in 1..Len(enc.val) |-> enc.val[i] + self.num_special_tokens]
    IN  IF ~enc.ok THEN enc
        ELSE [ok |-> TRUE,
              val |-> (IF bos THEN <<self.bos_id>> ELSE <<>>)
                          \o tokens
                          \o (IF eos THEN <<self.eos_id>> ELSE <<>>)]

\* the filter dropping the BOS id only
KeepsToken_bosOnly(self, t) == t # self.bos_id

\* the filter dropping every special id
KeepsToken_noSpecial(self, t) == t >= self.num_special_tokens

\* "if t not in {self.bos, self.eos}"
KeepsToken(self, t) == t \notin {self.bos_id, self.eos_id}

\* detokenize handing the ids to the library without shifting them back
detokenize_unshifted(self, tokens) ==
    Encoding_decode(self.id2token,
                    SelectSeq(tokens, LAMBDA t : KeepsToken(self, t)))

detokenize(self, tokens) ==
    LET kept == SelectSeq(tokens, LAMBDA t : KeepsToken(self, t))
    IN  Encoding_decode(self.id2token,
                        [i \in 1..Len(kept) |-> kept[i] - self.num_special_tokens])

(***************************************************************************)
(* The calls.                                                              *)
(***************************************************************************)
NoCall ==
    [op |-> "none", max_vocab |-> None, vocab_size |-> 0,
     num_special_tokens |-> 0, special_tokens |-> None, s |-> <<>>, bos |-> FALSE,
     eos |-> FALSE, tokens |-> <<>>, ok |-> TRUE, ranks |-> EmptyDict,
     ids |-> <<>>, text |-> <<>>]

\* no generator made by throttle_generator: i and out are unbound
NoGenerator ==
    [pc |-> "none", source |-> <<>>, stream_interval |-> 1, consumed |-> 0,
     i |-> None, out |-> None, yielded |-> <<>>, yielded_at |-> <<>>]

\* max_vocab of the calls of reload_mergeable_ranks
MaxVocabs == {None, Some(100), Some(256), Some(257), Some(259), Some(300)}

\* (vocab_size, num_special_tokens) of the constructions
Sizes == {<<103, 3>>, <<259, 3>>, <<263, 3>>, <<264, 3>>, <<265, 5>>, <<3, 3>>}

SpecialArgs ==
    {None,
     Some(<<"<s>", "</s>", "<pad>", "<unk>">>),
     Some(<<"<unk>", "<s>", "</s>", "<SPECIAL_4>">>),
     Some(<<"<unk>", "<s>", "</s>", "<s>">>),
     Some(<<"<unk>", "<s>", "<pad>">>)}

Init ==
    /\ vocab_file \in Files
    /\ tok = NoTokenizer
    /\ call = NoCall
    /\ gen = NoGenerator

\* the code points of the texts: a, b, space, e acute, a lone surrogate
Alphabet == {97, 98, 32, 233, 55296}

RECURSIVE SeqsUpTo(_, _)
SeqsUpTo(S, n) ==
    IF n = 0 THEN {<<>>}
    ELSE LET shorter == SeqsUpTo(S, n - 1)
         IN  shorter \cup {Append(q, x) : q \in shorter, x \in S}

Texts == SeqsUpTo(Alphabet, MaxTextLen)

\* the ids given to detokenize: the special ones, two ordinary ones, and
\* the first id past the vocabulary
DetokIds(self) ==
    {self.bos_id, self.eos_id, self.unk_id, self.num_special_tokens - 1,
     self.num_special_tokens + 97, self.vocab_size - 1, self.vocab_size}

\* reload_mergeable_ranks and the constructor read the file and nothing
\* else, and a tokenizer's methods read the tokenizer and nothing else: a
\* run calls the loader, or constructs a tokenizer and calls its methods.
LoadRanks ==
    /\ tok.status = "none"
    /\ \E mv \in MaxVocabs :
           LET r == reload_mergeable_ranks(vocab_file, mv)
           IN  /\ call' = [NoCall EXCEPT !.op = "reload_mergeable_ranks",
                                         !.max_vocab = mv, !.ok = r.ok,
                                         !.ranks = r.val]
               /\ UNCHANGED <<vocab_file, tok, gen>>

Construct ==
    /\ tok.status = "none"
    /\ call.op = "none"
    /\ \E sz \in Sizes, st \in SpecialArgs :
           /\ tok' = CustomTikTokenizer_init(vocab_file, sz[1], sz[2], st)
           /\ call' = [NoCall EXCEPT !.op = "CustomTikTokenizer",
                                     !.vocab_size = sz[1],
                                     !.num_special_tokens = sz[2],
                                     !.special_tokens = st,
                                     !.ok = (tok'.status = "ok")]
    /\ UNCHANGED <<vocab_file, gen>>

Tokenize ==
    /\ tok.status = "ok"
    /\ call.op = "CustomTikTokenizer"
    /\ \E s \in Texts, bos \in BOOLEAN, eos \in BOOLEAN :
           LET r == tokenize(tok, s, bos, eos)
           IN  call' = [NoCall EXCEPT !.op = "tokenize", !.s = s, !.bos = bos,
                                      !.eos = eos, !.ok = r.ok, !.ids = r.val]
    /\ UNCHANGED <<vocab_file, tok, gen>>

\* detokenize(tokenize(s, bos, eos)), as CustomTikTokenizer.encode calls it
DetokenizeTokenized ==
    /\ tok.status = "ok"
    /\ call.op = "tokenize"
    /\ call.ok
    /\ LET r == detokenize(tok, call.ids)
       IN  call' = [call EXCEPT !.op = "detokenize(tokenize)", !.tokens = call.ids,
                                !.ok = r.ok, !.text = r.val]
    /\ UNCHANGED <<vocab_file, tok, gen>>

Detokenize ==
    /\ tok.status = "ok"
    /\ call.op = "CustomTikTokenizer"
    /\ \E tokens \in SeqsUpTo(DetokIds(tok), MaxIds) :
           LET r == detokenize(tok, tokens)
           IN  call' = [NoCall EXCEPT !.op = "detokenize", !.tokens = tokens,
                                      !.ok = r.ok, !.text = r.val]
    /\ UNCHANGED <<vocab_file, tok, gen>>

Next == LoadRanks \/ Construct \/ Tokenize \/ DetokenizeTokenized \/ Detokenize

Spec == Init /\ [][Next]_vars

(***************************************************************************)
(* throttle_generator(generator, stream_interval), run to its end by the   *)
(* loop that consumes it.  gen.pc is the place of the frame: "for" (the    *)
(* for statement asks enumerate for the next pair), "body" (the if of the  *)
(* loop), "after" (the if after the loop), "done" (returned: the consumer  *)
(* gets StopIteration), "raised" (an exception left the frame).            *)
(* gen.yielded holds the items handed to the consumer; gen.yielded_at,     *)
(* the index each had in the source, is kept to state the properties.      *)
(***************************************************************************)
\* the items of the sources
Items == {"x", "y"}

ThrottleInit ==
    /\ vocab_file = JsonFile(GoodVocab(0))
    /\ tok = NoTokenizer
    /\ call = NoCall
    /\ \E source \in SeqsUpTo(Items, MaxSource), k \in 1..MaxInterval :
           gen = [NoGenerator EXCEPT !.pc = "for", !.source = source,
                                     !.stream_interval = k]

\* "for i, out in enumerate(generator)": the next pair is bound to i, out
ForNext ==
    /\ gen.pc = "for"
    /\ gen.consumed < Len(gen.source)
    /\ gen' = [gen EXCEPT !.i = Some(gen.consumed),
                          !.out = Some(gen.source[gen.consumed + 1]),
                          !.consumed = gen.consumed + 1,
                          !.pc = "body"]
    /\ UNCHANGED <<vocab_file, tok, call>>

\* the source is exhausted: the loop ends, i and out stay as they are
ForExhausted ==
    /\ gen.pc = "for"
    /\ gen.consumed = Len(gen.source)
    /\ gen' = [gen EXCEPT !.pc = "after"]
    /\ UNCHANGED <<vocab_file, tok, call>>

\* "if not i % stream_interval: yield out"
LoopBody ==
    /\ gen.pc = "body"
    /\ gen' = IF gen.i.v % gen.stream_interval = 0
              THEN [gen EXCEPT !.yielded = Append(@, gen.out.v),
                               !.yielded_at = Append(@, gen.i.v),
                               !.pc = "for"]
              ELSE [gen EXCEPT !.pc = "for"]
    /\ UNCHANGED <<vocab_file, tok, call>>

\* "if i % stream_interval: yield out" after the loop; reading i when the
\* loop never bound it raises UnboundLocalError
AfterLoop ==
    /\ gen.pc = "after"
    /\ gen' = IF ~gen.i.some THEN [gen EXCEPT !.pc = "raised"]
              ELSE IF gen.i.v % gen.stream_interval # 0
              THEN [gen EXCEPT !.yielded = Append(@, gen.out.v),
                               !.yielded_at = Append(@, gen.i.v),
                               !.pc = "done"]
              ELSE [gen EXCEPT !.pc = "done"]
    /\ UNCHANGED <<vocab_file, tok, call>>

ThrottleNext == ForNext \/ ForExhausted \/ LoopBody \/ AfterLoop

ThrottleSpec == ThrottleInit /\ [][ThrottleNext]_vars

(***************************************************************************)
(* Properties.                                                             *)
(***************************************************************************)
HasSurrogate(s) == \E i \in 1..Len(s) : IsSurrogate(s[i])

\* every byte of the UTF-8 form of text is a key of the rank table
InTable(self, text) ==
    \A b \in Range(Utf8Encode(text)) : <<b>> \in DOMAIN self.token2id

\* the text the library encodes for s has all its bytes in the rank table
Encodable(self, s) == InTable(self, SurrogateFixup(s))

Flagless == ~call.bos /\ ~call.eos
Framed == call.bos /\ call.eos

\* the ids of a tokenize result that stand for the text
Content(c) ==
    SubSeq(c.ids, IF c.bos THEN 2 ELSE 1, Len(c.ids) - (IF c.eos THEN 1 ELSE 0))

Ordinary(self, t) == self.num_special_tokens <= t /\ t < self.vocab_size

StripMarkers(self, tokens) ==
    SelectSeq(tokens, LAMBDA t : t # self.bos_id /\ t # self.eos_id)

\* the bytes of a sequence of ordinary ids
BytesOf(self, tokens) ==
    Concat([i \in 1..Len(tokens) |->
               self.id2token[tokens[i] - self.num_special_tokens]])

(* C1, as stated: for every constructed tokenizer and every text t,        *)
(* tokenize(t) without flags returns and detokenize of it returns t.       *)
C1_RoundTripEveryText ==
    /\ (call.op = "tokenize" /\ Flagless => call.ok)
    /\ (call.op = "detokenize(tokenize)" /\ Flagless
            => call.ok /\ call.text = call.s)

(* C1, amended: for every constructed tokenizer and every text t that has  *)
(* no surrogate code point and whose UTF-8 bytes are all keys of the rank  *)
(* table, tokenize(t) without flags returns and detokenize of it returns   *)
(* exactly t.                                                              *)
C1_RoundTrip ==
    /\ (call.op = "tokenize" /\ Flagless /\ ~HasSurrogate(call.s)
        /\ InTable(tok, call.s) => call.ok)
    /\ (call.op = "detokenize(tokenize)" /\ Flagless /\ ~HasSurrogate(call.s)
            => call.ok /\ call.text = call.s)

\* " a" and e acute are merged: two ids stand for four bytes, and decode back
C1_Witness ==
    /\ call.op = "detokenize(tokenize)" /\ Flagless
    /\ call.s = <<32, 97, 233>>
    /\ Len(call.tokens) = 2
    /\ call.ok /\ call.text = call.s

(* C2, as stated: for every text t, tokenize(t, bos=True, eos=True)        *)
(* returns BOS, then tokenize(t), then EOS, and detokenize of it returns t.*)
C2_FramingEveryText ==
    /\ (call.op = "tokenize" /\ Framed
            => /\ call.ok
               /\ Head(call.ids) = tok.bos_id
               /\ call.ids[Len(call.ids)] = tok.eos_id
               /\ Content(call) = tokenize(tok, call.s, FALSE, FALSE).val)
    /\ (call.op = "detokenize(tokenize)" /\ Framed
            => call.ok /\ call.text = call.s)

(* C2, amended: for every text t whose bytes (once the library has         *)
(* replaced its surrogates) are all keys of the rank table,                *)
(* tokenize(t, bos=True, eos=True) returns BOS, then tokenize(t), then     *)
(* EOS; and if t has no surrogate code point, detokenize of that sequence  *)
(* returns t.                                                              *)
C2_Framing ==
    /\ (call.op = "tokenize" /\ Framed /\ Encodable(tok, call.s)
            => /\ call.ok
               /\ Head(call.ids) = tok.bos_id
               /\ call.ids[Len(call.ids)] = tok.eos_id
               /\ tokenize(tok, call.s, FALSE, FALSE).ok
               /\ Content(call) = tokenize(tok, call.s, FALSE, FALSE).val)
    /\ (call.op = "detokenize(tokenize)" /\ Framed /\ ~HasSurrogate(call.s)
            => call.ok /\ call.text = call.s)

\* a framed text of three ids between the markers, decoded back
C2_Witness ==
    /\ call.op = "detokenize(tokenize)" /\ Framed
    /\ call.s = <<97, 32, 98>>
    /\ Len(call.tokens) = 5
    /\ Head(call.tokens) = tok.bos_id
    /\ call.tokens[5] = tok.eos_id
    /\ tok.bos_id # 1
    /\ call.text = call.s

(* C3: every id tokenize emits for the text (every id but the BOS or EOS   *)
(* a flag added) is at least num_special_tokens and below vocab_size, so   *)
(* it is no special id and the BOS/EOS filter of detokenize keeps it.      *)
C3_IdSpacePartition ==
    call.op = "tokenize" /\ call.ok
        => /\ \A i \in 1..Len(Content(call)) :
                  /\ tok.num_special_tokens <= Content(call)[i]
                  /\ Content(call)[i] < tok.vocab_size
                  /\ Content(call)[i] \notin {tok.bos_id, tok.eos_id, tok.unk_id}
           /\ SelectSeq(Content(call), LAMBDA t : KeepsToken(tok, t)) = Content(call)

\* the highest rank of the table is emitted as the last id of the vocabulary
C3_Witness ==
    /\ call.op = "tokenize" /\ call.ok /\ Framed
    /\ Len(call.ids) = 3
    /\ call.ids[2] = tok.vocab_size - 1
    /\ tok.num_special_tokens = 5

(* C4: for every sequence of ordinary ids with BOS and EOS ids at any      *)
(* positions, detokenize returns what it returns for the sequence with     *)
(* every BOS and EOS id deleted: the text of the ordinary ids.             *)
C4_MarkersDroppedAnywhere ==
    call.op = "detokenize"
    /\ (\A i \in 1..Len(call.tokens) :
           call.tokens[i] \in {tok.bos_id, tok.eos_id} \/ Ordinary(tok, call.tokens[i]))
        => /\ call.ok
           /\ detokenize(tok, StripMarkers(tok, call.tokens)).ok
           /\ call.text = detokenize(tok, StripMarkers(tok, call.tokens)).val
           /\ call.text = Utf8DecodeReplace(
                              BytesOf(tok, StripMarkers(tok, call.tokens)))

\* an EOS id between two ordinary ids
C4_Witness ==
    /\ call.op = "detokenize" /\ call.ok
    /\ Len(call.tokens) = 3
    /\ Ordinary(tok, call.tokens[1])
    /\ call.tokens[2] = tok.eos_id
    /\ Ordinary(tok, call.tokens[3])
    /\ Len(call.text) = 2

(* C5, as stated: detokenize does not fail on the id of a special token   *)
(* other than BOS/EOS, and the id adds nothing to the text.                *)
C5_SpecialIdsDecode ==
    call.op = "detokenize"
    /\ (\A i \in 1..Len(call.tokens) :
           0 <= call.tokens[i] /\ call.tokens[i] < tok.vocab_size)
        => /\ call.ok
           /\ call.text = Utf8DecodeReplace(
                  BytesOf(tok, SelectSeq(call.tokens, LAMBDA t : Ordinary(tok, t))))

\* id is the id of a special token that is neither BOS nor EOS
OtherSpecial(self, t) ==
    0 <= t /\ t < self.num_special_tokens /\ t \notin {self.bos_id, self.eos_id}

(* C5, amended: detokenize fails on every id sequence that holds the id of *)
(* a special token other than BOS/EOS (the UNK id, the id of a             *)
(* <SPECIAL_i> placeholder): it returns no text.                           *)
C5_SpecialIdsRaise ==
    call.op = "detokenize"
    /\ (\E i \in 1..Len(call.tokens) : OtherSpecial(tok, call.tokens[i]))
        => ~call.ok

\* the id of the placeholder <SPECIAL_4> after an ordinary id
C5_Witness ==
    /\ call.op = "detokenize"
    /\ Len(call.tokens) = 2
    /\ Ordinary(tok, call.tokens[1])
    /\ call.tokens[2] = 4
    /\ tok.special_tokens[5] = "<SPECIAL_4>"
    /\ ~call.ok

(* C6, as stated: tokenize returns for every constructed tokenizer and     *)
(* every text.                                                             *)
C6_EncodeTotal == call.op = "tokenize" => call.ok

(* C6, amended: for every tokenizer constructed with                       *)
(* vocab_size - num_special_tokens >= 256 the rank table holds each of the *)
(* 256 single-byte sequences, and tokenize returns for every text.         *)
C6_EncodeTotalFrom256 ==
    tok.status = "ok" /\ tok.vocab_size - tok.num_special_tokens >= 256
        => /\ \A b \in 0..255 : <<b>> \in DOMAIN tok.token2id
           /\ (call.op = "tokenize" => call.ok)

\* a text with a two-byte character and a surrogate, on a table of the
\* 256 single bytes and nothing else
C6_Witness ==
    /\ call.op = "tokenize" /\ call.ok
    /\ tok.vocab_size - tok.num_special_tokens = 256
    /\ call.s = <<233, 55296>>
    /\ Len(call.ids) = 5

\* an entry of the list has a rank that is not its position
RankMismatch(entries) ==
    \E i \in 0..(Len(entries) - 1) : entries[i + 1].rank # i

\* the entries of the file that a load with max_vocab reads
Kept(entries, max_vocab) ==
    IF max_vocab.some /\ max_vocab.v < Len(entries)
    THEN [i \in 1..max_vocab.v |-> entries[i]]
    ELSE entries

(* C7, as stated: a file with an entry whose rank is not its position      *)
(* makes every load raise, with or without max_vocab, and so every         *)
(* construction.                                                           *)
C7_AnyMismatchRejected ==
    RankMismatch(vocab_file.entries)
        => /\ (call.op = "reload_mergeable_ranks" => ~call.ok)
           /\ tok.status # "ok"

(* C7, amended: a file with an entry whose rank is not its position, among *)
(* the entries kept after the cut to max_vocab (all of them without        *)
(* max_vocab, the first vocab_size - num_special_tokens for a              *)
(* construction), makes the load raise and the construction fail.          *)
C7_KeptMismatchRejected ==
    /\ (call.op = "reload_mergeable_ranks"
        /\ RankMismatch(Kept(vocab_file.entries, call.max_vocab)) => ~call.ok)
    /\ (call.op = "CustomTikTokenizer"
        /\ RankMismatch(Kept(vocab_file.entries,
                             Some(call.vocab_size - call.num_special_tokens)))
            => ~call.ok /\ tok.status = "failed")

\* the wrong rank sits at the last position the load keeps
C7_Witness ==
    /\ call.op = "reload_mergeable_ranks" /\ ~call.ok
    /\ call.max_vocab = Some(259)
    /\ vocab_file.entries[259].rank # 258
    /\ ~RankMismatch(Kept(vocab_file.entries, Some(258)))

\* a well-formed vocabulary file
ValidFile(f) == f = JsonFile(GoodVocab(Len(f.entries)))

\* the labels given and the count meet the constraints of the constructor
ValidSpecialArgs(special_tokens_arg, num_special_tokens, vocab_size) ==
    LET labels == IF special_tokens_arg.some THEN special_tokens_arg.v
                  ELSE SPECIAL_TOKENS
    IN  /\ \A i, j \in 1..Len(labels) : i # j => labels[i] # labels[j]
        /\ \A i \in 1..Len(SPECIAL_TOKENS) : SPECIAL_TOKENS[i] \in Range(labels)
        /\ Len(labels) <= num_special_tokens
        /\ num_special_tokens < vocab_size
        /\ \A i \in Len(labels)..(num_special_tokens - 1) :
               SPECIAL_TOKEN_TEMPLATE(i) \notin Range(labels)

(* C8: a constructed tokenizer has a rank table of exactly                 *)
(* vocab_size - num_special_tokens entries, so that                        *)
(* num_special_tokens + |table| = vocab_size; construction over a valid    *)
(* file with fewer entries than that fails, and over a valid file with     *)
(* exactly that many (and valid special tokens) succeeds.                  *)
C8_SizeConsistency ==
    /\ (tok.status = "ok"
            => /\ Cardinality(DOMAIN tok.token2id)
                      = tok.vocab_size - tok.num_special_tokens
               /\ tok.num_special_tokens + Cardinality(DOMAIN tok.token2id)
                      = tok.vocab_size)
    /\ (call.op = "CustomTikTokenizer" /\ ValidFile(vocab_file)
        /\ Len(vocab_file.entries) < call.vocab_size - call.num_special_tokens
            => ~call.ok /\ tok.status = "failed")
    /\ (call.op = "CustomTikTokenizer" /\ ValidFile(vocab_file)
        /\ Len(vocab_file.entries) = call.vocab_size - call.num_special_tokens
        /\ ValidSpecialArgs(call.special_tokens, call.num_special_tokens,
                            call.vocab_size)
            => call.ok /\ tok.status = "ok")

\* a file of exactly vocab_size - num_special_tokens entries, constructed
C8_Witness ==
    /\ call.op = "CustomTikTokenizer" /\ call.ok
    /\ ValidFile(vocab_file)
    /\ Len(vocab_file.entries) = call.vocab_size - call.num_special_tokens
    /\ Cardinality(DOMAIN tok.token2id) = FullLen

\* the table maps the one-byte sequence [i] to i for every i below n
SeededBelow(ranks, n) ==
    \A i \in 0..(n - 1) : <<i>> \in DOMAIN ranks /\ ranks[<<i>>] = i

(* C9, as stated: every rank table the loader returns maps [i] to i for    *)
(* every i in [0, 256).                                                    *)
C9_SeededAll256 ==
    call.op = "reload_mergeable_ranks" /\ call.ok => SeededBelow(call.ranks, 256)

(* C9, amended: every rank table of size N the loader returns maps [i] to  *)
(* i for every i in [0, min(256, N)).                                      *)
C9_SeededUpToSize ==
    /\ (call.op = "reload_mergeable_ranks" /\ call.ok
            => SeededBelow(call.ranks, Min(256, Cardinality(DOMAIN call.ranks))))
    /\ (tok.status = "ok"
            => SeededBelow(tok.token2id, Min(256, Cardinality(DOMAIN tok.token2id))))

\* a table of the 256 bytes and one merge
C9_Witness ==
    /\ call.op = "reload_mergeable_ranks" /\ call.ok
    /\ Cardinality(DOMAIN call.ranks) = 257
    /\ call.ranks[<<255>>] = 255

\* two entries of the list decode to the same bytes
HasDuplicate(entries) ==
    \E i, j \in 1..Len(entries) :
        /\ i < j
        /\ b64decode(entries[i].token_bytes).ok
        /\ b64decode(entries[i].token_bytes) = b64decode(entries[j].token_bytes)

\* the ranks of the list are not 0, 1, ..., one for each entry
HasGap(entries) ==
    {entries[i].rank : i \in 1..Len(entries)} # 0..(Len(entries) - 1)

\* ranks is one-to-one onto 0..N-1, N its size
Bijective(ranks) ==
    /\ DictValues(ranks) = 0..(Cardinality(DOMAIN ranks) - 1)
    /\ \A k1, k2 \in DOMAIN ranks : k1 # k2 => ranks[k1] # ranks[k2]

(* C10, as stated: a returned table of size N is one-to-one onto           *)
(* {0..N-1}, and a file with two entries of the same bytes, or with a rank *)
(* gap, is rejected.                                                       *)
C10_AnyDuplicateRejected ==
    call.op = "reload_mergeable_ranks"
        => /\ (call.ok => Bijective(call.ranks))
           /\ (HasDuplicate(vocab_file.entries) \/ HasGap(vocab_file.entries)
                   => ~call.ok)

(* C10, amended: a returned table of size N is one-to-one onto {0..N-1},   *)
(* and a file is rejected when, among the entries kept after the cut to    *)
(* max_vocab, two have the same bytes or the ranks leave a gap.            *)
C10_Bijective ==
    call.op = "reload_mergeable_ranks"
        => /\ (call.ok => Bijective(call.ranks))
           /\ (HasDuplicate(Kept(vocab_file.entries, call.max_vocab))
               \/ HasGap(Kept(vocab_file.entries, call.max_vocab))
                   => ~call.ok)

\* the file with "ab" at two ranks, loaded whole
C10_Witness ==
    /\ call.op = "reload_mergeable_ranks" /\ ~call.ok
    /\ ~call.max_vocab.some
    /\ HasDuplicate(vocab_file.entries)
    /\ ~HasGap(vocab_file.entries)

\* the labels a constructor call is given
SuppliedLabels(c) ==
    IF c.special_tokens.some THEN c.special_tokens.v ELSE SPECIAL_TOKENS

\* the label "<SPECIAL_i>" of the unused slot i
PlaceholderLabel(i) == "<SPECIAL_" \o ToString(i) \o ">"

\* the supplied labels break one of the four constraints of the constructor
BadSpecialArgs(c) ==
    LET labels == SuppliedLabels(c)
    IN  \/ \E i, j \in 1..Len(labels) : i # j /\ labels[i] = labels[j]
        \/ \E x \in {"<unk>", "<s>", "</s>"} : x \notin Range(labels)
        \/ ~(Len(labels) <= c.num_special_tokens
             /\ c.num_special_tokens < c.vocab_size)
        \/ \E i \in Len(labels)..(c.num_special_tokens - 1) :
               PlaceholderLabel(i) \in Range(labels)

(* C11: after every successful construction the special-token table has    *)
(* exactly num_special_tokens pairwise-distinct labels, the supplied        *)
(* labels (default <unk>, <s>, </s>) are its prefix in order, and slot i    *)
(* for each i in [len(supplied), num_special_tokens) holds <SPECIAL_i>;     *)
(* construction fails if the supplied labels contain a duplicate, miss one  *)
(* of <unk>, <s>, </s>, violate                                             *)
(* len(special_tokens) <= num_special_tokens < vocab_size, or collide with  *)
(* a synthesized placeholder.                                               *)
C11_SpecialTokenTable ==
    call.op = "CustomTikTokenizer" =>
        LET labels == SuppliedLabels(call)
            table == tok.special_tokens
        IN  /\ call.ok =>
                /\ Len(table) = call.num_special_tokens
                /\ \A i, j \in 1..Len(table) : i # j => table[i] # table[j]
                /\ Len(labels) <= Len(table)
                /\ \A i \in 1..Len(labels) : table[i] = labels[i]
                /\ \A i \in Len(labels)..(call.num_special_tokens - 1) :
                       table[i + 1] = PlaceholderLabel(i)
            /\ BadSpecialArgs(call) => ~call.ok /\ tok.status # "ok"

\* a tokenizer built with four labels of its own and five slots: the last
\* slot holds a placeholder
C11_Witness ==
    /\ call.op = "CustomTikTokenizer"
    /\ call.ok
    /\ call.special_tokens = Some(<<"<s>", "</s>", "<pad>", "<unk>">>)
    /\ call.num_special_tokens = 5
    /\ tok.special_tokens = <<"<s>", "</s>", "<pad>", "<unk>", "<SPECIAL_4>">>

\* the pre-tokenized segments of a text, as bytes
Segments(s) ==
    LET pieces == SplitFrom(SurrogateFixup(s), 1)
    IN  [i \in 1..Len(pieces) |-> Utf8Encode(pieces[i])]

SingleBytes(seg) == [i \in 1..Len(seg) |-> <<seg[i]>>]

\* the adjacent pairs of pieces whose concatenation is a key of the table
AdjacentInTable(pieces, table) ==
    {i \in 1..(Len(pieces) - 1) : (pieces[i] \o pieces[i + 1]) \in DOMAIN table}

\* merge the adjacent pair of the lowest rank until none is in the table
RECURSIVE MergedLowestFirst(_, _)
MergedLowestFirst(pieces, table) ==
    LET pairs == AdjacentInTable(pieces, table)
        rankAt(i) == table[pieces[i] \o pieces[i + 1]]
        low == CHOOSE i \in pairs :
                   \A j \in pairs :
                       rankAt(i) < rankAt(j) \/ (rankAt(i) = rankAt(j) /\ i <= j)
    IN  IF pairs = {} THEN pieces
        ELSE MergedLowestFirst(
                 SubSeq(pieces, 1, low - 1)
                     \o <<pieces[low] \o pieces[low + 1]>>
                     \o SubSeq(pieces, low + 2, Len(pieces)),
                 table)

\* the ids of the pieces: rank plus num_special_tokens
PieceIds(self, pieces) ==
    [i \in 1..Len(pieces) |->
        IF pieces[i] \in DOMAIN self.token2id
        THEN self.token2id[pieces[i]] + self.num_special_tokens
        ELSE -1]

\* the ids of a segment merged from its single bytes
MergedIds(self, seg) ==
    PieceIds(self, MergedLowestFirst(SingleBytes(seg), self.token2id))

\* the ids of a segment: its own rank if it is a key of the table, the
\* ranks of the pieces merged from its single bytes if not
SegmentIds(self, seg) ==
    IF seg \in DOMAIN self.token2id THEN PieceIds(self, <<seg>>)
    ELSE MergedIds(self, seg)

\* 'a' at rank 97 and 'ab' at rank 256: "ab" is one id, which decodes to "ab"
AbExample ==
    (/\ tok.status = "ok"
     /\ <<97>> \in DOMAIN tok.token2id
     /\ <<97, 98>> \in DOMAIN tok.token2id
     /\ tok.token2id[<<97>>] = 97
     /\ tok.token2id[<<97, 98>>] = 256
     /\ call.s = <<97, 98>>)
        => /\ call.op = "tokenize" =>
                call.ok /\ Content(call) = <<256 + tok.num_special_tokens>>
           /\ call.op = "detokenize(tokenize)" =>
                /\ call.ok
                /\ StripMarkers(tok, call.tokens) = <<256 + tok.num_special_tokens>>
                /\ call.text = <<97, 98>>

(* C12: for each pre-tokenized segment, tokenize starts from the segment's  *)
(* single bytes and repeatedly merges the adjacent pair whose concatenation *)
(* has the lowest rank in the table until no adjacent pair's concatenation  *)
(* is in the table, then emits each piece's rank plus num_special_tokens;   *)
(* with 'a' at rank 97 and 'ab' at rank 256, tokenize('ab') is the single   *)
(* id 256 + num_special_tokens and detokenize of that id is 'ab'.           *)
C12_MergedFromBytesAlways ==
    /\ (call.op = "tokenize" /\ call.ok) =>
           LET segs == Segments(call.s)
           IN  Content(call)
                   = Concat([i \in 1..Len(segs) |-> MergedIds(tok, segs[i])])
    /\ AbExample

(* C12, as the code has it: a segment whose bytes are a key of the rank     *)
(* table is emitted as that key's rank plus num_special_tokens without any  *)
(* merging; every other segment starts from its single bytes and merges     *)
(* the adjacent pair of the lowest rank until no adjacent pair is in the    *)
(* table, and each piece is emitted as its rank plus num_special_tokens;    *)
(* with 'a' at rank 97 and 'ab' at rank 256, tokenize('ab') is the single   *)
(* id 256 + num_special_tokens and detokenize of that id is 'ab'.           *)
C12_BytePairMerge ==
    /\ (call.op = "tokenize" /\ call.ok) =>
           LET segs == Segments(call.s)
           IN  Content(call)
                   = Concat([i \in 1..Len(segs) |-> SegmentIds(tok, segs[i])])
    /\ AbExample

\* "aba" with 'ab' at 256 and 'ba' at 259: the pair of the lower rank is
\* merged, and the two ids decode to the text
C12_Witness ==
    /\ call.op = "detokenize(tokenize)"
    /\ call.ok
    /\ Flagless
    /\ call.s = <<97, 98, 97>>
    /\ <<98, 97>> \in DOMAIN tok.token2id
    /\ tok.token2id[<<98, 97>>] = 259
    /\ call.ids = <<256 + tok.num_special_tokens, 97 + tok.num_special_tokens>>
    /\ call.text = <<97, 98, 97>>

\* the indexes throttle_generator is to deliver of a source of n items:
\* the multiples of k in order, then n - 1 if it is not one of them
ExpectedIndexes(n, k) ==
    LET multiples == SelectSeq([j \in 1..n |-> j - 1], LAMBDA x : x % k = 0)
    IN  IF n > 0 /\ (n - 1) % k # 0 THEN Append(multiples, n - 1) ELSE multiples

\* what the consumer has got is what the claim says of the whole source
DeliveredAsClaimed ==
    LET n == Len(gen.source)
        at == gen.yielded_at
    IN  /\ at = ExpectedIndexes(n, gen.stream_interval)
        /\ Len(gen.yielded) = Len(at)
        /\ \A j \in 1..Len(at) : gen.yielded[j] = gen.source[at[j] + 1]
        /\ \A j, l \in 1..Len(at) : j # l => at[j] # at[l]
        /\ n > 0 => Cardinality({j \in 1..Len(at) : at[j] = n - 1}) = 1

(* C13: throttle_generator(generator, k) for k >= 1 and any finite source   *)
(* o_0..o_{n-1} yields, in source order, exactly the items whose index is a *)
(* multiple of k, followed by o_{n-1} when n - 1 is not a multiple of k;    *)
(* the last source item is delivered exactly once, no item is yielded       *)
(* twice, and the call terminates normally for every n >= 0, the empty      *)
(* source included: no exception leaves the generator, a generator that is  *)
(* not done can take a step, and when it is done the consumer has got       *)
(* exactly those items.                                                     *)
C13_Throttle ==
    /\ gen.pc # "raised"
    /\ gen.pc \in {"for", "body", "after"} => ENABLED ThrottleNext
    /\ gen.pc = "done" => DeliveredAsClaimed

\* C13 for the sources that have an item: the generator ends normally
\* having delivered what the claim says; over the empty source it raises.
C13_ThrottleNonEmpty ==
    /\ gen.pc = "raised" => gen.source = <<>> /\ gen.yielded = <<>>
    /\ gen.source = <<>> => gen.pc # "done"
    /\ gen.pc \in {"for", "body", "after"} => ENABLED ThrottleNext
    /\ gen.pc = "done" => DeliveredAsClaimed

\* a source of five items throttled by 3: items 0 and 3, then the last
C13_Witness ==
    /\ gen.pc = "done"
    /\ Len(gen.source) = 5
    /\ gen.stream_interval = 3
    /\ gen.yielded_at = <<0, 3, 4>>

=============================================================================
